---- MODULE Spec2Model ----
(***************************************************************************)
(* A model of chi's Mux (src/mux.go): registration (Use, handle, NotFound, *)
(* Chain, Group, Route, Mount), and dispatch (ServeHTTP, routeHTTP) with   *)
(* the pooled routing context.                                             *)
(*                                                                         *)
(* Strings of the program (patterns, paths) are sequences of tokens: "/",  *)
(* "*", the placeholder "{id}" and static chunks such as "a".  String      *)
(* concatenation is \o, pattern[0] is pattern[1], the last byte is         *)
(* pattern[Len(pattern)].                                                  *)
(*                                                                         *)
(* The pattern tree (node, InsertRoute, FindRoute, findPattern), the       *)
(* middleware chain (chain, Chain(..).Handler), the routing Context        *)
(* (reset, Params.Del) and MethodMap are code of the repository outside    *)
(* src/mux.go; they are modelled from the specification's sections 3, 4.1, *)
(* 4.2 and 6.                                                              *)
(***************************************************************************)
EXTENDS Naturals, Sequences, FiniteSets, TLC

\* Bounds of the model.
MaxRouters == 3
MaxCalls == 3
MaxReqs == 2
MaxFlows == 2

VARIABLES
  routers,    \* the Mux objects, by identity 1..Len(routers)
  trees,      \* trees[t]: the routes of the tree node created by router t's NewMux
  pools,      \* pools[i]: the contexts idle in router i's sync.Pool
  ctxs,       \* the routing Context objects allocated so far
  req,        \* req[q]: the dispatch running or last run in flow of control q
  last,       \* the most recent registration call and its outcome
  okCalls,    \* okCalls[i]: the registration calls that returned normally on router i,
              \* each <<name, pattern given>>, a handle call with its method and
              \* handler too
  ncalls,     \* registration calls made
  nreqs       \* dispatches started

vars == <<routers, trees, pools, ctxs, req, last, okCalls, ncalls, nreqs>>

----------------------------------------------------------------------------
\* Methods

RealMethods == {"CONNECT", "DELETE", "GET", "HEAD", "OPTIONS", "PATCH", "POST", "PUT", "TRACE"}

STUB == {"STUB"}

ANY == RealMethods

\* MethodMap[r.Method]: the request method's flag and ok.
MethodMapOk(m) == m \in RealMethods

----------------------------------------------------------------------------
\* Handlers.  A handler value is a base handler and the middlewares wrapped
\* around it, outermost first.

Nil == [kind |-> "nil", h |-> "", sub |-> 0, mws |-> <<>>]

\* A handler function of the program's user, by name.
UserH(h) == [kind |-> "user", h |-> h, sub |-> 0, mws |-> <<>>]

\* http.NotFound
HttpNotFound == [kind |-> "notfound", h |-> "", sub |-> 0, mws |-> <<>>]

\* Router i as an http.Handler (its ServeHTTP).
MuxH(i) == [kind |-> "mux", h |-> "", sub |-> i, mws |-> <<>>]

\* http.HandlerFunc(mx.routeHTTP)
RouteHTTPH(mx) == [kind |-> "routeHTTP", h |-> "", sub |-> mx, mws |-> <<>>]

\* Mount's closure over handler, which rewrites the route path and forwards.
SubHandler(handler) == [kind |-> "mount", h |-> handler.h, sub |-> handler.sub, mws |-> <<>>]

\* What the closure of a mount forwards to.
MountTarget(sh) == IF sh.sub # 0 THEN MuxH(sh.sub) ELSE UserH(sh.h)

\* One middleware applied to a handler: the middleware runs around it.
Wrap(m, h) == [h EXCEPT !.mws = <<m>> \o h.mws]

RECURSIVE chainFrom(_, _, _)
chainFrom(middlewares, i, h) ==
  IF i = 0 THEN h ELSE chainFrom(middlewares, i - 1, Wrap(middlewares[i], h))

\* chain(middlewares, endpoint): the endpoint wrapped with each middleware, last
\* registered first, so that the first registered ends outermost.
chain(middlewares, endpoint) == chainFrom(middlewares, Len(middlewares), endpoint)

----------------------------------------------------------------------------
\* Patterns and the pattern tree

IsParam(tok) == tok \in {"{id}", "{k}"}

IsWild(tok) == tok = "*"

ParamKey(tok) == IF tok = "{id}" THEN "id" ELSE "k"

\* The length of the longest prefix of path without a "/".
RECURSIVE SegLen(_)
SegLen(path) ==
  IF path = <<>> \/ Head(path) = "/" THEN 0 ELSE 1 + SegLen(Tail(path))

Drop(s, n) == SubSeq(s, n + 1, Len(s))

NoMatch == [ok |-> FALSE, params |-> {}]

\* Whether pattern matches the whole of path, and what its placeholders and
\* wildcard capture.
RECURSIVE Match(_, _)
Match(pattern, path) ==
  IF pattern = <<>> THEN [ok |-> path = <<>>, params |-> {}]
  ELSE IF IsWild(Head(pattern)) THEN [ok |-> TRUE, params |-> {<<"*", path>>}]
  ELSE IF IsParam(Head(pattern)) THEN
    LET n == SegLen(path)
        rest == Match(Tail(pattern), Drop(path, n))
    IN IF n = 0 \/ ~rest.ok THEN NoMatch
       ELSE [ok |-> TRUE,
             params |-> {<<ParamKey(Head(pattern)), SubSeq(path, 1, n)>>} \cup rest.params]
  ELSE IF path = <<>> \/ Head(path) # Head(pattern) THEN NoMatch
  ELSE Match(Tail(pattern), Tail(path))

\* How specific a pattern is at position i: its end, a static chunk, a
\* placeholder, the wildcard.
Rank(pattern, i) ==
  IF i > Len(pattern) THEN 3
  ELSE IF IsWild(pattern[i]) THEN 0
  ELSE IF IsParam(pattern[i]) THEN 1
  ELSE 2

\* p is the more specific of two patterns: at the first place they differ, p
\* is the one that ends, else the static one, else the placeholder.
MoreSpecific(p, q) ==
  \E i \in 1..(Len(p) + 1) :
    /\ \A j \in 1..(i - 1) : j <= Len(q) /\ p[j] = q[j]
    /\ Rank(p, i) > Rank(q, i)

Patterns(tree) == {e.pattern : e \in tree}

\* tree.findPattern(pattern) != nil
findPattern(tree, pattern) == pattern \in Patterns(tree)

\* tree.InsertRoute(method, pattern, handler): the binding is stored; methods
\* registered before at the same pattern stay unless bound again.
InsertRoute(tree, method, pattern, handler) ==
  LET kept == {[e EXCEPT !.methods = IF e.pattern = pattern THEN @ \ method ELSE @] : e \in tree}
      sub == IF \E e \in tree : e.pattern = pattern /\ e.subrouter # 0
               THEN (CHOOSE e \in tree : e.pattern = pattern /\ e.subrouter # 0).subrouter
               ELSE 0
  IN {e \in kept : e.methods # {}}
       \cup {[pattern |-> pattern, methods |-> method, handler |-> handler, subrouter |-> sub]}

\* n.subrouter = subr, for the node n of pattern.
SetSubrouter(tree, pattern, subr) ==
  {[e EXCEPT !.subrouter = IF e.pattern = pattern THEN subr ELSE @] : e \in tree}

\* The pattern tree.FindRoute matches path with: the most specific one.
Matching(tree, path) == {p \in Patterns(tree) : Match(p, path).ok}

BestPattern(tree, path) ==
  CHOOSE p \in Matching(tree, path) :
    \A q \in Matching(tree, path) \ {p} : MoreSpecific(p, q)

\* hs[method]: the handler bound to a real method at a pattern, or Nil.
Endpoint(tree, pattern, method) ==
  IF \E e \in tree : e.pattern = pattern /\ method \in e.methods
    THEN (CHOOSE e \in tree : e.pattern = pattern /\ method \in e.methods).handler
    ELSE Nil

\* tree.FindRoute(rctx, path): found, the matched pattern, and the
\* parameters it writes into rctx.
FindRoute(tree, path) ==
  IF Matching(tree, path) = {} THEN [found |-> FALSE, pattern |-> <<>>, params |-> {}]
  ELSE LET p == BestPattern(tree, path)
       IN [found |-> TRUE, pattern |-> p, params |-> Match(p, path).params]

----------------------------------------------------------------------------
\* The routing context

\* Params: a set of <<key, value>>, at most one per key.
ParamsAdd(params, new) ==
  {kv \in params : \A n \in new : n[1] # kv[1]} \cup new

\* The value Params.Del(key) returns: the value of key, or "" when absent.
ParamsDelValue(params, key) ==
  IF \E kv \in params : kv[1] = key
    THEN (CHOOSE kv \in params : kv[1] = key)[2]
    ELSE <<>>

\* Params after Params.Del(key).
ParamsDel(params, key) == {kv \in params : kv[1] # key}

\* NewRouteContext()
NewRouteContext == [Params |-> {}, RoutePath |-> <<>>, parent |-> 0]

\* rctx.reset()
reset(rctx) == [Params |-> {}, RoutePath |-> <<>>, parent |-> 0]

----------------------------------------------------------------------------
\* Registration.  The calls are operators on a configuration c: the routers,
\* the trees, the log of the calls that returned, and err, the panic raised
\* (a panic ends the call in progress and every call around it).

Panic(c, msg) == [c EXCEPT !.err = msg]

Returned(c, mx, op, pattern) ==
  IF c.err # "" THEN c ELSE [c EXCEPT !.okCalls[mx] = @ \cup {<<op, pattern>>}]

\* NewMux(): a router with a tree and a context pool of its own.
NewMux(c) ==
  [c EXCEPT
     !.routers = Append(@, [tree |-> Len(c.routers) + 1, middlewares |-> <<>>, inline |-> FALSE,
                            handler |-> Nil, notFoundHandler |-> Nil, poolNew |-> TRUE]),
     !.trees = Append(@, {}),
     !.okCalls = Append(@, {})]

\* &Mux{inline: true, tree: mx.tree, middlewares: mws}
InlineMux(c, mx, mws) ==
  [c EXCEPT
     !.routers = Append(@, [tree |-> c.routers[mx].tree, middlewares |-> mws, inline |-> TRUE,
                            handler |-> Nil, notFoundHandler |-> Nil, poolNew |-> FALSE]),
     !.trees = Append(@, {}),
     !.okCalls = Append(@, {})]

\* Use without its test of mx.handler.
UseUnchecked(c, mx, middlewares) ==
  IF c.err # "" THEN c
  ELSE Returned([c EXCEPT !.routers[mx].middlewares = @ \o middlewares], mx, "Use", <<>>)

\* mx.Use(middlewares...)
Use(c, mx, middlewares) ==
  IF c.err # "" THEN c
  ELSE IF c.routers[mx].handler # Nil THEN Panic(c, "use-after-build")
  ELSE Returned([c EXCEPT !.routers[mx].middlewares = @ \o middlewares], mx, "Use", <<>>)

\* mx.NotFound(handlerFn)
NotFound(c, mx, handlerFn) ==
  IF c.err # "" THEN c
  ELSE Returned([c EXCEPT !.routers[mx].notFoundHandler = handlerFn], mx, "NotFound", <<>>)

\* NotFoundHandler that forgets the router's own handler.
NotFoundHandlerDefault(router) == HttpNotFound

\* mx.NotFoundHandler()
NotFoundHandler(router) ==
  IF router.notFoundHandler # Nil THEN router.notFoundHandler ELSE HttpNotFound

RECURSIVE Reverse(_)
Reverse(seq) == IF seq = <<>> THEN <<>> ELSE Append(Reverse(Tail(seq)), Head(seq))

\* buildRouteHandler that chains the middlewares last registered first.
buildRouteHandlerReversed(c, mx) ==
  [c EXCEPT !.routers[mx].handler = chain(Reverse(c.routers[mx].middlewares), RouteHTTPH(mx))]

\* mx.buildRouteHandler()
buildRouteHandler(c, mx) ==
  [c EXCEPT !.routers[mx].handler = chain(c.routers[mx].middlewares, RouteHTTPH(mx))]

\* The handler mx.handle stores for handler: wrapped with the middlewares of
\* an inline router, as it is for any other.
EndpointHandler(router, handler) ==
  IF router.inline THEN chain(router.middlewares, handler) ELSE handler

\* handle has returned on mx, having registered handler for method at pattern.
Bound(c, mx, method, pattern, handler) ==
  [c EXCEPT !.okCalls[mx] = @ \cup {<<"handle", pattern, method, handler>>}]

\* handle that registers the handler for every method.
handleAnyMethod(c, mx, method, pattern, handler) ==
  IF c.err # "" THEN c
  ELSE IF Len(pattern) = 0 \/ pattern[1] # "/" THEN Panic(c, "pattern")
  ELSE
    LET c1 == IF ~c.routers[mx].inline /\ c.routers[mx].handler = Nil
                THEN buildRouteHandler(c, mx) ELSE c
        c2 == IF c1.routers[mx].inline
                THEN [c1 EXCEPT !.routers[mx].handler = RouteHTTPH(mx)] ELSE c1
        h == EndpointHandler(c2.routers[mx], handler)
        t == c2.routers[mx].tree
    IN Bound([c2 EXCEPT !.trees[t] = InsertRoute(@, ANY \cup method, pattern, h)], mx, method, pattern, handler)

\* handle that sets the handler of any router as it does an inline one's.
handleSetsHandler(c, mx, method, pattern, handler) ==
  IF c.err # "" THEN c
  ELSE IF Len(pattern) = 0 \/ pattern[1] # "/" THEN Panic(c, "pattern")
  ELSE
    LET c1 == IF ~c.routers[mx].inline /\ c.routers[mx].handler = Nil
                THEN buildRouteHandler(c, mx) ELSE c
        c2 == [c1 EXCEPT !.routers[mx].handler = RouteHTTPH(mx)]
        h == EndpointHandler(c2.routers[mx], handler)
        t == c2.routers[mx].tree
    IN Bound([c2 EXCEPT !.trees[t] = InsertRoute(@, method, pattern, h)], mx, method, pattern, handler)

\* handle that leaves the handler of an inline router unset.
handleInlineUnbuilt(c, mx, method, pattern, handler) ==
  IF c.err # "" THEN c
  ELSE IF Len(pattern) = 0 \/ pattern[1] # "/" THEN Panic(c, "pattern")
  ELSE
    LET c1 == IF ~c.routers[mx].inline /\ c.routers[mx].handler = Nil
                THEN buildRouteHandler(c, mx) ELSE c
        h == EndpointHandler(c1.routers[mx], handler)
        t == c1.routers[mx].tree
    IN Bound([c1 EXCEPT !.trees[t] = InsertRoute(@, method, pattern, h)], mx, method, pattern, handler)

\* handle without its test of the pattern.
handleUnvalidated(c, mx, method, pattern, handler) ==
  IF c.err # "" THEN c
  ELSE
    LET c1 == IF ~c.routers[mx].inline /\ c.routers[mx].handler = Nil
                THEN buildRouteHandler(c, mx) ELSE c
        c2 == IF c1.routers[mx].inline
                THEN [c1 EXCEPT !.routers[mx].handler = RouteHTTPH(mx)] ELSE c1
        h == EndpointHandler(c2.routers[mx], handler)
        t == c2.routers[mx].tree
    IN Bound([c2 EXCEPT !.trees[t] = InsertRoute(@, method, pattern, h)], mx, method, pattern, handler)

\* mx.handle(method, pattern, handler)
handle(c, mx, method, pattern, handler) ==
  IF c.err # "" THEN c
  ELSE IF Len(pattern) = 0 \/ pattern[1] # "/" THEN Panic(c, "pattern")
  ELSE
    LET c1 == IF ~c.routers[mx].inline /\ c.routers[mx].handler = Nil
                THEN buildRouteHandler(c, mx) ELSE c
        c2 == IF c1.routers[mx].inline
                THEN [c1 EXCEPT !.routers[mx].handler = RouteHTTPH(mx)] ELSE c1
        h == EndpointHandler(c2.routers[mx], handler)
        t == c2.routers[mx].tree
    IN Bound([c2 EXCEPT !.trees[t] = InsertRoute(@, method, pattern, h)], mx, method, pattern, handler)

\* Chain that gives the inline router the middlewares of the call alone.
ChainNoCopy(c, mx, middlewares) ==
  IF c.err # "" THEN c
  ELSE
    LET c1 == IF ~c.routers[mx].inline /\ c.routers[mx].handler = Nil
                THEN buildRouteHandler(c, mx) ELSE c
    IN Returned(InlineMux(c1, mx, middlewares), mx, "Chain", <<>>)

\* mx.Chain(middlewares...); the router it returns is the last of c.routers.
Chain(c, mx, middlewares) ==
  IF c.err # "" THEN c
  ELSE
    LET c1 == IF ~c.routers[mx].inline /\ c.routers[mx].handler = Nil
                THEN buildRouteHandler(c, mx) ELSE c
        mws == (IF c1.routers[mx].inline THEN c1.routers[mx].middlewares ELSE <<>>) \o middlewares
    IN Returned(InlineMux(c1, mx, mws), mx, "Chain", <<>>)

\* Mount's test without its second half.
MountConflictStarOnly(tree, pattern) == findPattern(tree, pattern \o <<"*">>)

\* Whether Mount finds the pattern taken.
MountConflict(tree, pattern) ==
  findPattern(tree, pattern \o <<"*">>) \/ findPattern(tree, pattern \o <<"/", "*">>)

\* Mount's inheritance without its test of the sub-router's own handler.
InheritNotFoundAlways(c, mx, handler) ==
  IF handler.kind = "mux" /\ c.routers[mx].notFoundHandler # Nil
    THEN NotFound(c, handler.sub, c.routers[mx].notFoundHandler) ELSE c

\* Mount: a router mounted that has no not-found handler of its own is given
\* the receiver's, if the receiver has one.
InheritNotFound(c, mx, handler) ==
  IF /\ handler.kind = "mux"
     /\ c.routers[handler.sub].notFoundHandler = Nil
     /\ c.routers[mx].notFoundHandler # Nil
    THEN NotFound(c, handler.sub, c.routers[mx].notFoundHandler) ELSE c

\* Mount that registers pattern + "/" as it registers pattern: forwarding.
MountSlashForwards(c, mx, pattern, handler) ==
  IF c.err # "" THEN c
  ELSE IF MountConflict(c.trees[c.routers[mx].tree], pattern) THEN Panic(c, "mount-existing")
  ELSE
    LET subr == handler.sub
        isMux == handler.kind = "mux"
        c1 == InheritNotFound(c, mx, handler)
        subHandler == SubHandler(handler)
        noSlash == pattern = <<>> \/ pattern[Len(pattern)] # "/"
        c2 == IF noSlash THEN handle(c1, mx, ANY \cup STUB, pattern, subHandler) ELSE c1
        c3 == IF noSlash /\ c2.err = ""
                THEN handle(c2, mx, ANY \cup STUB, pattern \o <<"/">>, subHandler)
                ELSE c2
        pattern2 == IF noSlash THEN pattern \o <<"/">> ELSE pattern
        method == IF isMux THEN ANY \cup STUB ELSE ANY
        c4 == handle(c3, mx, method, pattern2 \o <<"*">>, subHandler)
        t == c.routers[mx].tree
        c5 == IF c4.err = "" /\ isMux
                THEN [c4 EXCEPT !.trees[t] = SetSubrouter(@, pattern2 \o <<"*">>, subr)] ELSE c4
    IN Returned(c5, mx, "Mount", pattern)

\* mx.Mount(pattern, handler); handler is a user's handler or a router (MuxH).
Mount(c, mx, pattern, handler) ==
  IF c.err # "" THEN c
  ELSE IF MountConflict(c.trees[c.routers[mx].tree], pattern) THEN Panic(c, "mount-existing")
  ELSE
    LET subr == handler.sub
        isMux == handler.kind = "mux"
        c1 == InheritNotFound(c, mx, handler)
        subHandler == SubHandler(handler)
        noSlash == pattern = <<>> \/ pattern[Len(pattern)] # "/"
        c2 == IF noSlash THEN handle(c1, mx, ANY \cup STUB, pattern, subHandler) ELSE c1
        c3 == IF noSlash /\ c2.err = ""
                THEN handle(c2, mx, ANY \cup STUB, pattern \o <<"/">>, NotFoundHandler(c2.routers[mx]))
                ELSE c2
        pattern2 == IF noSlash THEN pattern \o <<"/">> ELSE pattern
        method == IF isMux THEN ANY \cup STUB ELSE ANY
        c4 == handle(c3, mx, method, pattern2 \o <<"*">>, subHandler)
        t == c.routers[mx].tree
        c5 == IF c4.err = "" /\ isMux
                THEN [c4 EXCEPT !.trees[t] = SetSubrouter(@, pattern2 \o <<"*">>, subr)] ELSE c4
    IN Returned(c5, mx, "Mount", pattern)

\* A callback fn(r) of the program's user: the registration calls it makes on
\* the router r it is given, in order.  The nil callback makes none.
RECURSIVE RunFn(_, _, _)
RunFn(c, r, fn) ==
  IF fn = <<>> \/ c.err # "" THEN c
  ELSE LET call == Head(fn)
           c1 == IF call.op = "Use" THEN Use(c, r, call.mws)
                 ELSE IF call.op = "NotFound" THEN NotFound(c, r, call.handler)
                 ELSE handle(c, r, call.method, call.pattern, call.handler)
       IN RunFn(c1, r, Tail(fn))

\* mx.Group(fn)
Group(c, mx, fn) ==
  LET c1 == Chain(c, mx, <<>>)
  IN IF c1.err # "" THEN c1 ELSE Returned(RunFn(c1, Len(c1.routers), fn), mx, "Group", <<>>)

\* mx.Route(pattern, fn)
Route(c, mx, pattern, fn) ==
  IF c.err # "" THEN c
  ELSE LET c1 == NewMux(c)
           subRouter == Len(c1.routers)
           c2 == RunFn(c1, subRouter, fn)
       IN Returned(Mount(c2, mx, pattern, MuxH(subRouter)), mx, "Route", pattern)

----------------------------------------------------------------------------
\* Dispatch.  A flow of control q serves one request at a time.  Its stack
\* holds what is left to run, the top first: a handler to call, the part of a
\* middleware after its call of next, the pool.Put of ServeHTTP.  Its trace is
\* what the request's handlers, its response writer and the tree observed, in
\* order: a middleware entered ("before") and left ("after"), a handler of the
\* user run ("handler"), http.NotFound run ("404"), methodNotAllowedHandler run
\* ("405"), the tree queried ("find", with the path and the pattern found),
\* Mount's closure run ("forward"), a panic ("panic").  rp and params are the
\* routing context's route path and parameters at that moment.
\* A middleware of the model calls next once and returns.

Flows == 1..MaxFlows

\* The handlers of the user that abort (panic) instead of returning.
AbortingHandlers == {"Hpanic"}

\* A flow that serves no request.  Of a request: rctx is the routing context
\* in its scope, got the one ServeHTTP took from the pool, found that
\* context's fields as pool.Get returned it, put whether it was put back.
Idle == [status |-> "idle", id |-> 0, method |-> "", path |-> <<>>, mux |-> 0,
         rctx |-> 0, got |-> 0, found |-> NewRouteContext, put |-> FALSE,
         stack |-> <<>>, trace |-> <<>>]

\* A call of handler h made by the code of router mx: via "entry" by the
\* server, "serve" by ServeHTTP, "route" and "notfound" by routeHTTP, "mount"
\* by Mount's closure.
CallF(h, via, mx) == [op |-> "call", h |-> h, m |-> "", via |-> via, mx |-> mx]

AfterF(m) == [op |-> "after", h |-> Nil, m |-> m, via |-> "", mx |-> 0]

PutF(mx) == [op |-> "put", h |-> Nil, m |-> "", via |-> "", mx |-> mx]

Ev(ev, who, mx, via, rctx) ==
  [ev |-> ev, who |-> who, mx |-> mx, via |-> via, pat |-> <<>>,
   rp |-> IF rctx = 0 THEN <<>> ELSE ctxs[rctx].RoutePath,
   params |-> IF rctx = 0 THEN {} ELSE ctxs[rctx].Params]

Running(q) == req[q].status = "run"

Top(q) == Head(req[q].stack)

\* The top of q's stack is a call of a handler of this kind, its middlewares
\* already entered.
AtCall(q, kind) ==
  /\ Running(q)
  /\ Top(q).op = "call" /\ Top(q).h.mws = <<>> /\ Top(q).h.kind = kind

\* The request after its top frame is replaced by frames, having observed evs.
Continue(r, frames, evs) ==
  LET st == frames \o Tail(r.stack)
  IN [r EXCEPT !.stack = st,
               !.trace = @ \o evs,
               !.status = IF st = <<>> THEN "done" ELSE "run"]

\* The request after a panic: nothing of its stack runs.
Abort(r, evs) == [r EXCEPT !.stack = <<>>, !.trace = @ \o evs, !.status = "panic"]

\* ServeHTTP that puts the context back before it calls the handler.
ServeFramesPutFirst(mx, handler) == <<PutF(mx), CallF(handler, "serve", mx)>>

\* What ServeHTTP leaves to run once it holds the context: the computed
\* handler, then pool.Put.
ServeFrames(mx, handler) == <<CallF(handler, "serve", mx), PutF(mx)>>

\* routeHTTP that answers a method the route lacks as it answers no route.
routeHTTPMissingAsNotFound(router, tree, rctx, method, path) ==
  LET routePath == IF rctx.RoutePath # <<>> THEN rctx.RoutePath ELSE path
      fr == FindRoute(tree, routePath)
      h == Endpoint(tree, fr.pattern, method)
  IN IF ~MethodMapOk(method)
       THEN [routePath |-> routePath, queried |-> FALSE, params |-> {}, outcome |-> "405", h |-> Nil]
     ELSE IF ~fr.found \/ h = Nil
       THEN [routePath |-> routePath, queried |-> TRUE, params |-> fr.params, outcome |-> "notfound",
             h |-> NotFoundHandler(router)]
     ELSE [routePath |-> routePath, queried |-> TRUE, params |-> fr.params, outcome |-> "serve", h |-> h]

\* routeHTTP that finds the route before it looks at the method.
routeHTTPFindFirst(router, tree, rctx, method, path) ==
  LET routePath == IF rctx.RoutePath # <<>> THEN rctx.RoutePath ELSE path
      fr == FindRoute(tree, routePath)
      h == Endpoint(tree, fr.pattern, method)
  IN IF ~fr.found
       THEN [routePath |-> routePath, queried |-> TRUE, params |-> {}, outcome |-> "notfound",
             h |-> NotFoundHandler(router)]
     ELSE IF ~MethodMapOk(method) \/ h = Nil
       THEN [routePath |-> routePath, queried |-> TRUE, params |-> fr.params, outcome |-> "405", h |-> Nil]
     ELSE [routePath |-> routePath, queried |-> TRUE, params |-> fr.params, outcome |-> "serve", h |-> h]

\* What routeHTTP does with a request, given the router, its tree and the
\* routing context: the path it routes, whether it queries the tree, the
\* parameters the tree writes, and the outcome: "405", "notfound" (the
\* handler h is NotFoundHandler()) or "serve" (h is the route's handler).
routeHTTP(router, tree, rctx, method, path) ==
  LET routePath == IF rctx.RoutePath # <<>> THEN rctx.RoutePath ELSE path
      fr == FindRoute(tree, routePath)
      h == Endpoint(tree, fr.pattern, method)
  IN IF ~MethodMapOk(method)
       THEN [routePath |-> routePath, queried |-> FALSE, params |-> {}, outcome |-> "405", h |-> Nil]
     ELSE IF ~fr.found
       THEN [routePath |-> routePath, queried |-> TRUE, params |-> {}, outcome |-> "notfound",
             h |-> NotFoundHandler(router)]
     ELSE IF h = Nil
       THEN [routePath |-> routePath, queried |-> TRUE, params |-> fr.params, outcome |-> "405", h |-> Nil]
     ELSE [routePath |-> routePath, queried |-> TRUE, params |-> fr.params, outcome |-> "serve", h |-> h]

\* Mount's closure without the "/" it puts before the wildcard's capture.
MountRewriteNoSlash(rctx) ==
  [rctx EXCEPT !.RoutePath = ParamsDelValue(rctx.Params, "*"),
               !.Params = ParamsDel(rctx.Params, "*")]

\* Mount's closure reading the wildcard's capture and leaving it among the
\* parameters.
MountRewriteKeepsWildcard(rctx) ==
  [rctx EXCEPT !.RoutePath = <<"/">> \o ParamsDelValue(rctx.Params, "*")]

\* The routing context after Mount's closure rewrote it.
MountRewrite(rctx) ==
  [rctx EXCEPT !.RoutePath = <<"/">> \o ParamsDelValue(rctx.Params, "*"),
               !.Params = ParamsDel(rctx.Params, "*")]

Cfg == [routers |-> routers, trees |-> trees, okCalls |-> okCalls, err |-> ""]

NoneRunning == \A q \in Flows : req[q].status = "idle"

----------------------------------------------------------------------------
\* The state after construction: one router made by NewMux, no request.

\* last.had: for a Mount or a Route, the not-found handler the router mounted
\* had of its own when Mount was called.
NoCall == [op |-> "", mx |-> 0, err |-> "", mws |-> <<>>, pattern |-> <<>>, had |-> Nil]

Init ==
  /\ routers = NewMux([routers |-> <<>>, trees |-> <<>>, okCalls |-> <<>>, err |-> ""]).routers
  /\ trees = <<{}>>
  /\ okCalls = <<{}>>
  /\ pools = {}
  /\ ctxs = <<>>
  /\ req = [q \in Flows |-> Idle]
  /\ last = NoCall
  /\ ncalls = 0
  /\ nreqs = 0

----------------------------------------------------------------------------
\* Registration calls.  Registration is not interleaved with dispatch (the
\* tree and the routers are not locked): it happens while no flow serves.  A call that panics is recorded in
\* last.err, and what it changed before the panic stays changed.

CanRegister(mx) ==
  /\ NoneRunning
  /\ ncalls < MaxCalls
  /\ mx \in 1..Len(routers)

RegisteredHad(c, op, mx, mws, pattern, had) ==
  /\ routers' = c.routers
  /\ trees' = c.trees
  /\ okCalls' = c.okCalls
  /\ last' = [op |-> op, mx |-> mx, err |-> c.err, mws |-> mws, pattern |-> pattern, had |-> had]
  /\ ncalls' = ncalls + 1
  /\ UNCHANGED <<pools, ctxs, req, nreqs>>

Registered(c, op, mx, mws, pattern) == RegisteredHad(c, op, mx, mws, pattern, Nil)

CallUse(mx, mws) ==
  /\ CanRegister(mx)
  /\ Registered(Use(Cfg, mx, mws), "Use", mx, mws, <<>>)

\* Handle, HandleFunc, Any, Connect, Delete, Get, Head, Options, Patch, Post,
\* Put, Trace
CallHandle(mx, method, pattern, h) ==
  /\ CanRegister(mx)
  /\ Registered(handle(Cfg, mx, method, pattern, UserH(h)), "handle", mx, <<>>, pattern)

CallNotFound(mx, h) ==
  /\ CanRegister(mx)
  /\ Registered(NotFound(Cfg, mx, UserH(h)), "NotFound", mx, <<>>, <<>>)

CallChain(mx, mws) ==
  /\ CanRegister(mx)
  /\ Len(routers) < MaxRouters
  /\ Registered(Chain(Cfg, mx, mws), "Chain", mx, mws, <<>>)

CallGroup(mx, fn) ==
  /\ CanRegister(mx)
  /\ Len(routers) < MaxRouters
  /\ Registered(Group(Cfg, mx, fn), "Group", mx, <<>>, <<>>)

CallRoute(mx, pattern, fn) ==
  /\ CanRegister(mx)
  /\ Len(routers) < MaxRouters
  /\ RegisteredHad(Route(Cfg, mx, pattern, fn), "Route", mx, <<>>, pattern,
                   RunFn(NewMux(Cfg), Len(routers) + 1, fn).routers[Len(routers) + 1].notFoundHandler)

\* Mount(pattern, handler) of a handler of the user
CallMountHandler(mx, pattern, h) ==
  /\ CanRegister(mx)
  /\ Registered(Mount(Cfg, mx, pattern, UserH(h)), "Mount", mx, <<>>, pattern)

\* Mount(pattern, handler) of a router made before by NewRouter
CallMountRouter(mx, pattern, sub) ==
  /\ CanRegister(mx)
  /\ sub \in 1..Len(routers) /\ sub > mx /\ ~routers[sub].inline
  /\ RegisteredHad(Mount(Cfg, mx, pattern, MuxH(sub)), "Mount", mx, <<>>, pattern,
                   routers[sub].notFoundHandler)

CallNewRouter ==
  /\ NoneRunning
  /\ ncalls < MaxCalls
  /\ Len(routers) < MaxRouters
  /\ Registered(NewMux(Cfg), "NewRouter", 0, <<>>, <<>>)

----------------------------------------------------------------------------
\* Dispatch steps

\* The server calls mx.ServeHTTP(w, r) with a request that carries no routing
\* context, in the lowest free flow of control.
StartRequest(q, mx, method, path) ==
  /\ req[q].status = "idle"
  /\ \A p \in 1..(q - 1) : req[p].status # "idle"
  /\ nreqs < MaxReqs
  /\ mx \in 1..Len(routers)
  /\ nreqs' = nreqs + 1
  /\ req' = [req EXCEPT ![q] =
               [Idle EXCEPT !.status = "run", !.id = nreqs + 1, !.method = method,
                            !.path = path, !.mux = mx,
                            !.stack = <<CallF(MuxH(mx), "entry", 0)>>]]
  /\ UNCHANGED <<routers, trees, okCalls, pools, ctxs, last, ncalls>>

\* ServeHTTP without its test of mx.handler.
NoHandlersUntested(router) == FALSE

\* ServeHTTP's test that the mux has no computed handler.
NoHandlers(router) == router.handler = Nil

\* ServeHTTP that does not reset the context it got.
AcquireNoReset(rctx, r) == [rctx EXCEPT !.parent = r.id]

\* The context pool.Get() returned, after rctx.reset() and
\* rctx.parent = r.Context(); the scope of request r is named by its id.
Acquire(rctx, r) == [reset(rctx) EXCEPT !.parent = r.id]

\* What pool.Get() may return: a context idle in the pool, or (sync.Pool
\* keeps no promise to retain one) a new one from pool.New, if New is set.
PoolGet(mx) ==
  {c \in 1..Len(ctxs) : <<mx, c>> \in pools}
    \cup (IF routers[mx].poolNew THEN {Len(ctxs) + 1} ELSE {})

\* mx.ServeHTTP(w, r), up to its call of mx.handler
ServeHTTP(q) ==
  /\ AtCall(q, "mux")
  /\ LET mx == Top(q).h.sub
         r == req[q]
     IN IF NoHandlers(routers[mx]) THEN
          /\ req' = [req EXCEPT ![q] = Abort(r, <<Ev("panic", "no-handlers", mx, "", r.rctx)>>)]
          /\ UNCHANGED <<pools, ctxs>>
        ELSE IF r.rctx # 0 THEN
          /\ req' = [req EXCEPT ![q] =
                       Continue(r, <<CallF(routers[mx].handler, "serve", mx)>>, <<>>)]
          /\ UNCHANGED <<pools, ctxs>>
        ELSE IF PoolGet(mx) = {} THEN
          /\ req' = [req EXCEPT ![q] = Abort(r, <<Ev("panic", "nil-context", mx, "", 0)>>)]
          /\ UNCHANGED <<pools, ctxs>>
        ELSE \E c \in PoolGet(mx) :
          LET got == IF c > Len(ctxs) THEN NewRouteContext ELSE ctxs[c]
          IN /\ ctxs' = IF c > Len(ctxs) THEN Append(ctxs, Acquire(got, r))
                                          ELSE [ctxs EXCEPT ![c] = Acquire(got, r)]
             /\ pools' = pools \ {<<mx, c>>}
             /\ req' = [req EXCEPT ![q] =
                          [Continue(r, ServeFrames(mx, routers[mx].handler), <<>>)
                             EXCEPT !.rctx = c, !.got = c, !.found = got]]
  /\ UNCHANGED <<routers, trees, okCalls, last, ncalls, nreqs>>

\* mx.pool.Put(rctx), the end of ServeHTTP
PoolPut(q) ==
  /\ Running(q)
  /\ Top(q).op = "put"
  /\ pools' = pools \cup {<<Top(q).mx, req[q].got>>}
  /\ req' = [req EXCEPT ![q] = [Continue(req[q], <<>>, <<>>) EXCEPT !.put = TRUE]]
  /\ UNCHANGED <<routers, trees, okCalls, ctxs, last, ncalls, nreqs>>

\* A middleware is entered: it runs its part before next, and calls next.
MiddlewareBefore(q) ==
  /\ Running(q)
  /\ Top(q).op = "call" /\ Top(q).h.mws # <<>>
  /\ LET f == Top(q)
         m == Head(f.h.mws)
     IN req' = [req EXCEPT ![q] =
                  Continue(req[q], <<[f EXCEPT !.h.mws = Tail(@)], AfterF(m)>>,
                           <<Ev("before", m, f.mx, f.via, req[q].rctx)>>)]
  /\ UNCHANGED <<routers, trees, okCalls, pools, ctxs, last, ncalls, nreqs>>

\* next has returned: the middleware runs its part after it, and returns.
MiddlewareAfter(q) ==
  /\ Running(q)
  /\ Top(q).op = "after"
  /\ req' = [req EXCEPT ![q] =
               Continue(req[q], <<>>, <<Ev("after", Top(q).m, 0, "", req[q].rctx)>>)]
  /\ UNCHANGED <<routers, trees, okCalls, pools, ctxs, last, ncalls, nreqs>>

\* mx.routeHTTP(w, r)
RouteHTTP(q) ==
  /\ AtCall(q, "routeHTTP")
  /\ LET mx == Top(q).h.sub
         r == req[q]
         d == routeHTTP(routers[mx], trees[routers[mx].tree], ctxs[r.rctx], r.method, r.path)
         found == [ctxs EXCEPT ![r.rctx].Params = ParamsAdd(@, d.params)]
         fr == FindRoute(trees[routers[mx].tree], d.routePath)
         find == IF d.queried
                   THEN <<[Ev("find", IF fr.found THEN "hit" ELSE "miss", mx, "", r.rctx)
                             EXCEPT !.rp = d.routePath, !.pat = fr.pattern]>>
                   ELSE <<>>
     IN /\ ctxs' = found
        /\ req' = [req EXCEPT ![q] =
                     IF d.outcome = "405"
                       THEN Continue(r, <<>>, find \o <<[Ev("405", "", mx, "", r.rctx) EXCEPT !.params = found[r.rctx].Params]>>)
                       ELSE Continue(r, <<CallF(d.h, IF d.outcome = "serve" THEN "route" ELSE "notfound", mx)>>, find)]
  /\ UNCHANGED <<routers, trees, okCalls, pools, last, ncalls, nreqs>>

\* The closure Mount registered: it rewrites the route path and calls
\* handler.ServeHTTP(w, r).
MountForward(q) ==
  /\ AtCall(q, "mount")
  /\ LET r == req[q]
         rctx == MountRewrite(ctxs[r.rctx])
     IN /\ ctxs' = [ctxs EXCEPT ![r.rctx] = rctx]
        /\ req' = [req EXCEPT ![q] =
                     Continue(r, <<CallF(MountTarget(Top(q).h), "mount", Top(q).mx)>>,
                              <<[Ev("forward", "", Top(q).mx, Top(q).via, r.rctx)
                                   EXCEPT !.rp = rctx.RoutePath, !.params = rctx.Params]>>)]
  /\ UNCHANGED <<routers, trees, okCalls, pools, last, ncalls, nreqs>>

\* A handler of the user runs: it sees the routing context, and returns or
\* aborts.
UserHandler(q) ==
  /\ AtCall(q, "user")
  /\ LET r == req[q]
         ev == Ev("handler", Top(q).h.h, Top(q).mx, Top(q).via, r.rctx)
     IN req' = [req EXCEPT ![q] =
                  IF Top(q).h.h \in AbortingHandlers
                    THEN Abort(r, <<ev>>) ELSE Continue(r, <<>>, <<ev>>)]
  /\ UNCHANGED <<routers, trees, okCalls, pools, ctxs, last, ncalls, nreqs>>

\* http.NotFound(w, r)
DefaultNotFound(q) ==
  /\ AtCall(q, "notfound")
  /\ req' = [req EXCEPT ![q] =
               Continue(req[q], <<>>, <<Ev("404", "", Top(q).mx, Top(q).via, req[q].rctx)>>)]
  /\ UNCHANGED <<routers, trees, okCalls, pools, ctxs, last, ncalls, nreqs>>

\* ServeHTTP has returned to the server, or the panic has reached it: the
\* flow of control is free for the next request.
Finish(q) ==
  /\ req[q].status \in {"done", "panic"}
  /\ req' = [req EXCEPT ![q] = Idle]
  /\ UNCHANGED <<routers, trees, okCalls, pools, ctxs, last, ncalls, nreqs>>

\* One step of the dispatch in flow q.
Serve(q) ==
  \/ ServeHTTP(q)
  \/ MiddlewareBefore(q)
  \/ RouteHTTP(q)
  \/ UserHandler(q)
  \/ DefaultNotFound(q)
  \/ MiddlewareAfter(q)
  \/ PoolPut(q)
  \/ Finish(q)

----------------------------------------------------------------------------
\* Inputs

PathA == <<"/", "a">>

PathB == <<"/", "b">>

PathM == <<"/", "m">>

PathMS == <<"/", "m", "/">>

PathMA == <<"/", "m", "/", "a">>

PathMMA == <<"/", "m", "/", "m", "/", "a">>

PathId == <<"/", "{id}">>

\* fn(r) that calls r.Get(pattern, h)
FnGet(pattern, h) ==
  <<[op |-> "handle", mws |-> <<>>, method |-> {"GET"}, pattern |-> pattern, handler |-> UserH(h)]>>

\* fn(r) that calls r.NotFound(nf) and r.Get(pattern, h)
FnNotFoundGet(nf, pattern, h) ==
  <<[op |-> "NotFound", mws |-> <<>>, method |-> {}, pattern |-> <<>>, handler |-> UserH(nf)]>>
    \o FnGet(pattern, h)

\* fn(r) that calls r.Use(m) and r.Get(pattern, h)
FnUseGet(m, pattern, h) ==
  <<[op |-> "Use", mws |-> <<m>>, method |-> {}, pattern |-> <<>>, handler |-> Nil]>>
    \o FnGet(pattern, h)

RouterIds == 1..MaxRouters

----------------------------------------------------------------------------
\* The router under registration calls of every kind, serving one request at
\* a time.

NextSeal ==
  \/ \E mx \in RouterIds : CallUse(mx, <<"M1">>)
  \/ \E mx \in RouterIds : CallHandle(mx, {"GET"}, PathA, "H1")
  \/ \E mx \in RouterIds : CallNotFound(mx, "N1")
  \/ \E mx \in RouterIds : CallChain(mx, <<"M2">>)
  \/ \E mx \in RouterIds : CallGroup(mx, <<>>)
  \/ \E mx \in RouterIds : CallRoute(mx, PathM, FnGet(PathA, "H1"))
  \/ \E mx \in RouterIds : CallMountHandler(mx, PathM, "H1")
  \/ \E mx, sub \in RouterIds : CallMountRouter(mx, PathM, sub)
  \/ CallNewRouter
  \/ \E mx \in RouterIds, path \in {PathA, PathMA} : StartRequest(1, mx, "GET", path)
  \/ Serve(1)
  \/ MountForward(1)

Spec == Init /\ [][NextSeal]_vars

----------------------------------------------------------------------------
\* One router with middlewares, routes for GET and a not-found override,
\* serving one request at a time; the handler Hpanic aborts.

NextDispatch ==
  \/ \E m \in {"M1", "M2"} : CallUse(1, <<m>>)
  \/ \E h \in {"H1", "Hpanic"} : CallHandle(1, {"GET"}, PathA, h)
  \/ CallHandle(1, {"GET"}, PathId, "H2")
  \/ CallNotFound(1, "N1")
  \/ \E method \in {"GET", "POST", "BREW"}, path \in {PathA, PathB, PathMA} :
       StartRequest(1, 1, method, path)
  \/ Serve(1)

SpecDispatch == Init /\ [][NextDispatch]_vars

----------------------------------------------------------------------------
\* Routers mounted on routers, serving one request at a time.

NextMount ==
  \/ \E mx \in RouterIds : CallHandle(mx, {"GET"}, PathA, "H1")
  \/ \E mx \in RouterIds, fn \in {<<>>, FnGet(PathA, "H1")} : CallRoute(mx, PathM, fn)
  \/ \E mx \in RouterIds, pattern \in {PathM, PathMS} : CallMountHandler(mx, pattern, "H2")
  \/ \E mx, sub \in RouterIds, pattern \in {PathM, PathMS} : CallMountRouter(mx, pattern, sub)
  \/ CallNewRouter
  \/ \E path \in {PathA, PathM, PathMS, PathMA, PathMMA} : StartRequest(1, 1, "GET", path)
  \/ ServeHTTP(1)
  \/ RouteHTTP(1)
  \/ MountForward(1)
  \/ UserHandler(1)
  \/ DefaultNotFound(1)
  \/ PoolPut(1)
  \/ Finish(1)

SpecMount == Init /\ [][NextMount]_vars

----------------------------------------------------------------------------
\* One router with a route of one placeholder, serving requests in
\* concurrent flows of control.

NextPool ==
  \/ CallHandle(1, {"GET"}, PathId, "H1")
  \/ \E q \in Flows, path \in {PathA, PathB} : StartRequest(q, 1, "GET", path)
  \/ \E q \in Flows : ServeHTTP(q)
  \/ \E q \in Flows : RouteHTTP(q)
  \/ \E q \in Flows : UserHandler(q)
  \/ \E q \in Flows : PoolPut(q)
  \/ \E q \in Flows : Finish(q)

SpecPool == Init /\ [][NextPool]_vars

----------------------------------------------------------------------------
\* Routes registered on a router, through its groups and on routers mounted
\* on it, the same method and pattern more than once; one request at a time,
\* on any of the routers.

NextRound ==
  \/ CallUse(1, <<"M1">>)
  \/ \E mx \in RouterIds, method \in {{"GET"}, {"POST"}}, h \in {"H1", "H2"} :
       CallHandle(mx, method, PathA, h)
  \/ CallHandle(1, {"GET"}, PathMS, "H1")
  \/ \E mx \in RouterIds, fn \in {<<>>, FnGet(PathB, "H2")} : CallGroup(mx, fn)
  \/ CallRoute(1, PathM, FnGet(PathA, "H1"))
  \/ CallMountHandler(1, PathM, "H2")
  \/ \E mx \in RouterIds, method \in {"GET", "POST"}, path \in {PathA, PathB, PathM, PathMS, PathMA} :
       StartRequest(1, mx, method, path)
  \/ Serve(1)
  \/ MountForward(1)

SpecRound == Init /\ [][NextRound]_vars

----------------------------------------------------------------------------
\* Registration with patterns of every shape: empty, without the leading
\* "/", with and without a trailing "/".

PatNone == <<>>

PatRel == <<"m">>

PatRelS == <<"m", "/">>

PatRoot == <<"/">>

NextPattern ==
  \/ \E mx \in RouterIds : CallUse(mx, <<"M1">>)
  \/ \E mx \in RouterIds : CallNotFound(mx, "N1")
  \/ \E mx \in RouterIds, pattern \in {PatNone, PatRel, PathA} : CallHandle(mx, {"GET"}, pattern, "H1")
  \/ \E mx \in RouterIds, pattern \in {PatNone, PatRel, PatRelS, PatRoot, PathM} :
       CallMountHandler(mx, pattern, "H2")
  \/ \E mx, sub \in RouterIds, pattern \in {PatNone, PatRelS, PathM} : CallMountRouter(mx, pattern, sub)
  \/ \E mx \in RouterIds, pattern \in {PatRel, PathM} : CallRoute(mx, pattern, FnGet(PatRel, "H1"))
  \/ \E mx \in RouterIds : CallGroup(mx, FnGet(PatNone, "H1"))
  \/ CallNewRouter

SpecPattern == Init /\ [][NextPattern]_vars

----------------------------------------------------------------------------
\* Routers mounted at prefixes with a placeholder, one request at a time: the
\* context a request leaves in the pool has parameters and a route path.

PathK == <<"/", "{k}">>

PathX == <<"/", "x">>

PathXA == <<"/", "x", "/", "a">>

PathXYA == <<"/", "x", "/", "y", "/", "a">>

NextParam ==
  \/ CallHandle(1, {"GET"}, PathA, "H2")
  \/ \E mx \in RouterIds, pattern \in {PathId, PathK}, fn \in {<<>>, FnGet(PathA, "H1")} :
       /\ mx = 1 \/ pattern = PathK
       /\ mx <= Len(routers) =>
            ~findPattern(trees[routers[mx].tree], IF pattern = PathId THEN PathK ELSE PathId)
       /\ CallRoute(mx, pattern, fn)
  \/ \E path \in {PathA, PathX, PathXA, PathXYA} : StartRequest(1, 1, "GET", path)
  \/ ServeHTTP(1)
  \/ RouteHTTP(1)
  \/ MountForward(1)
  \/ UserHandler(1)
  \/ DefaultNotFound(1)
  \/ PoolPut(1)
  \/ Finish(1)

SpecParam == Init /\ [][NextParam]_vars

----------------------------------------------------------------------------
\* Mounts and not-found overrides, set before and after a mount, on the
\* receiver and on the router mounted; one request at a time.

PathMB == <<"/", "m", "/", "b">>

NextNotFound ==
  \/ \E mx \in RouterIds : CallNotFound(mx, "N1")
  \/ \E mx \in RouterIds, pattern \in {PathM, PathMS} : CallMountHandler(mx, pattern, "H2")
  \/ \E mx \in RouterIds, fn \in {FnGet(PathA, "H1"), FnNotFoundGet("N2", PathA, "H1")} :
       CallRoute(mx, PathM, fn)
  \/ \E mx, sub \in RouterIds : CallMountRouter(mx, PathM, sub)
  \/ CallNewRouter
  \/ \E path \in {PathM, PathMS, PathMA, PathMB} : StartRequest(1, 1, "GET", path)
  \/ ServeHTTP(1)
  \/ RouteHTTP(1)
  \/ MountForward(1)
  \/ UserHandler(1)
  \/ DefaultNotFound(1)
  \/ PoolPut(1)
  \/ Finish(1)

SpecNotFound == Init /\ [][NextNotFound]_vars

----------------------------------------------------------------------------
\* Inline routers: the root's groups, and groups of groups, each with
\* middlewares, and routes registered through them; one request at a time.

NextInline ==
  \/ \E mx \in RouterIds : CallUse(mx, <<"M1">>)
  \/ \E mx \in RouterIds : CallChain(mx, <<"M2">>)
  \/ \E mx \in RouterIds, fn \in {<<>>, FnUseGet("M3", PathB, "H2")} : CallGroup(mx, fn)
  \/ \E mx \in RouterIds : CallHandle(mx, {"GET"}, PathA, "H1")
  \/ \E mx \in RouterIds, path \in {PathA, PathB, PathM} : StartRequest(1, mx, "GET", path)
  \/ Serve(1)

SpecInline == Init /\ [][NextInline]_vars

----------------------------------------------------------------------------
\* Properties

RouterSet == 1..Len(routers)

Started(q) == req[q].status # "idle"

\* ServeHTTP has run for q's request.
Entered(q) ==
  /\ Started(q)
  /\ req[q].stack # <<CallF(MuxH(req[q].mux), "entry", 0)>>

TraceIdx(q) == 1..Len(req[q].trace)

\* The registration calls that build the composed handler of a router that
\* is not inline.
BuildingCalls == {"handle", "Mount", "Route", "Chain", "Group"}

\* One of the calls named has returned on router mx.
HasReturned(mx, names) == \E c \in okCalls[mx] : c[1] \in names

\* This step is a call of the registration operation op on router mx.
IsCall(op, mx) == ncalls' = ncalls + 1 /\ last'.op = op /\ last'.mx = mx

\* C1: on a router that is not inline, once a Handle (or per-method
\* registration), Mount, Route, Chain or Group call has returned on it, every
\* Use call panics and leaves its middlewares as they were; before any such
\* call, Use returns and appends the middlewares given, in order.
C1_UseAfterBuild ==
  [][\A mx \in RouterSet :
       (IsCall("Use", mx) /\ ~routers[mx].inline) =>
         IF HasReturned(mx, BuildingCalls)
           THEN /\ last'.err = "use-after-build"
                /\ routers'[mx].middlewares = routers[mx].middlewares
           ELSE /\ last'.err = ""
                /\ routers'[mx].middlewares = routers[mx].middlewares \o last'.mws]_vars

\* A Use call has been rejected on a router sealed by Group, whose
\* middlewares are those of the Use call before it.
C1_Witness ==
  /\ last.op = "Use" /\ last.err = "use-after-build"
  /\ ~routers[last.mx].inline
  /\ routers[last.mx].middlewares = <<"M1">>
  /\ <<"Group", <<>>>> \in okCalls[last.mx]
  /\ ~HasReturned(last.mx, {"handle"})

\* q's dispatch failed in ServeHTTP for want of a computed handler: no
\* context acquired, nothing written.
FailedNoHandlers(q) ==
  /\ req[q].status = "panic"
  /\ req[q].got = 0 /\ req[q].rctx = 0
  /\ Len(req[q].trace) = 1
  /\ req[q].trace[1].ev = "panic" /\ req[q].trace[1].who = "no-handlers"

\* No route has ever been registered on router mx, nor in its tree.
NoRouteEver(mx) ==
  /\ trees[routers[mx].tree] = {}
  /\ ~HasReturned(mx, {"handle", "Mount", "Route"})

TreeOf(mx) == trees[routers[mx].tree]

\* Some route of the pattern answers the method.
MethodBound(tree, pattern, method) ==
  \E e \in tree : e.pattern = pattern /\ method \in e.methods

\* Every event of q's trace after the i-th is a middleware returning.
OnlyReturnsAfter(q, i) ==
  \A j \in TraceIdx(q) : j > i => req[q].trace[j].ev = "after"

\* C2: when a router looks up the effective path of a request with a real
\* method and the pattern matched has no route for that method, the router
\* answers 405 and the dispatch ends there: neither the not-found handler nor
\* a route's handler runs.
C2_MethodMismatch405 ==
  \A q \in Flows : \A i \in TraceIdx(q) :
    LET e == req[q].trace[i]
    IN (/\ e.ev = "find"
        /\ req[q].method \in RealMethods
        /\ Matching(TreeOf(e.mx), e.rp) # {}
        /\ ~MethodBound(TreeOf(e.mx), BestPattern(TreeOf(e.mx), e.rp), req[q].method))
       => /\ i < Len(req[q].trace)
          /\ req[q].trace[i + 1].ev = "405" /\ req[q].trace[i + 1].mx = e.mx
          /\ OnlyReturnsAfter(q, i + 1)
          /\ req[q].status # "panic"
          /\ \A k \in 1..Len(req[q].stack) : req[q].stack[k].op # "call"

\* A POST of a path registered for GET alone was answered 405, on a router
\* with a not-found override.
C2_Witness ==
  \E q \in Flows :
    /\ req[q].status = "done" /\ req[q].method = "POST" /\ req[q].path = PathA
    /\ routers[req[q].mux].notFoundHandler = UserH("N1")
    /\ \E i \in TraceIdx(q) : req[q].trace[i].ev = "405" /\ i > 1 /\ req[q].trace[i - 1].ev = "find"

\* The not-found handler in effect on router mx: the one given to NotFound on
\* it last, else http.NotFound.
EffectiveNotFound(mx) ==
  IF routers[mx].notFoundHandler = Nil THEN HttpNotFound ELSE routers[mx].notFoundHandler

\* Event e is handler nf run by routeHTTP of router mx as its not-found
\* handler.
IsNotFoundRun(e, nf, mx) ==
  /\ e.via = "notfound" /\ e.mx = mx
  /\ IF nf = HttpNotFound THEN e.ev = "404" ELSE e.ev = "handler" /\ e.who = nf.h

\* C3: when a router looks up the effective path of a request with a real
\* method and no pattern matches, the router calls its not-found handler in
\* effect, once, and nothing else: no route's handler runs.
C3_UnmatchedNotFound ==
  \A q \in Flows : \A i \in TraceIdx(q) :
    LET e == req[q].trace[i]
        nf == EffectiveNotFound(e.mx)
    IN (e.ev = "find" /\ Matching(TreeOf(e.mx), e.rp) = {})
       => /\ req[q].method \in RealMethods
          /\ IF i = Len(req[q].trace)
               THEN Running(q) /\ Top(q) = CallF(nf, "notfound", e.mx)
               ELSE /\ IsNotFoundRun(req[q].trace[i + 1], nf, e.mx)
                    /\ OnlyReturnsAfter(q, i + 1)
                    /\ \A k \in 1..Len(req[q].stack) : req[q].stack[k].op # "call"

\* An unmatched path was answered by the override given to NotFound.
C3_Witness ==
  \E q \in Flows :
    /\ req[q].status = "done" /\ req[q].path = PathMA
    /\ \E i \in TraceIdx(q) :
         /\ req[q].trace[i].ev = "handler" /\ req[q].trace[i].who = "N1"
         /\ req[q].trace[i].via = "notfound"

\* C4: a request whose method is not one of the nine is answered 405, once,
\* without the tree being queried, without a parameter written into its
\* routing context, and without a route's handler or the not-found handler
\* run, whether its path matches a pattern or not.
C4_UnknownMethod405 ==
  \A q \in Flows :
    (Started(q) /\ req[q].method \notin RealMethods) =>
      /\ \A i \in TraceIdx(q) : req[q].trace[i].ev \in {"before", "after", "405", "panic"}
      /\ \A i \in TraceIdx(q) : req[q].trace[i].params = {}
      /\ (Running(q) /\ req[q].rctx # 0) => ctxs[req[q].rctx].Params = {}
      /\ req[q].status = "done" =>
           Cardinality({i \in TraceIdx(q) : req[q].trace[i].ev = "405"}) = 1
      /\ req[q].status = "panic" => FailedNoHandlers(q)

\* A request of an unknown method for a path that matches a pattern with a
\* placeholder was answered 405.
C4_Witness ==
  \E q \in Flows :
    /\ req[q].status = "done" /\ req[q].method = "BREW" /\ req[q].path = PathB
    /\ Match(PathId, req[q].path).ok /\ findPattern(TreeOf(req[q].mux), PathId)
    /\ \E i \in TraceIdx(q) : req[q].trace[i].ev = "405"

\* The middleware and handler events of a trace, each <<event, name>>.
RECURSIVE Runs(_)
Runs(trace) ==
  IF trace = <<>> THEN <<>>
  ELSE (IF Head(trace).ev \in {"before", "after", "handler"}
          THEN <<<<Head(trace).ev, Head(trace).who>>>> ELSE <<>>) \o Runs(Tail(trace))

\* M1-before, ..., Mn-before, H, Mn-after, ..., M1-after
Onion(mws, h) ==
  [i \in 1..Len(mws) |-> <<"before", mws[i]>>]
    \o <<<<"handler", h>>>>
    \o [i \in 1..Len(mws) |-> <<"after", mws[Len(mws) + 1 - i]>>]

IsPrefix(s, t) == Len(s) <= Len(t) /\ s = SubSeq(t, 1, Len(s))

\* C5: a dispatch on a router with the middlewares M1..Mn that reaches a
\* route's handler H runs M1-before, ..., Mn-before, H, Mn-after, ...,
\* M1-after in that order, each once, and nothing between; a handler that
\* aborts ends the order at H.  Without middlewares H is all that runs.
C5_OnionOrder ==
  \A q \in Flows : \A i \in TraceIdx(q) :
    LET e == req[q].trace[i]
        expected == Onion(routers[req[q].mux].middlewares, e.who)
    IN (e.ev = "handler" /\ e.via = "route")
       => /\ IsPrefix(Runs(req[q].trace), expected)
          /\ req[q].status = "done" => Runs(req[q].trace) = expected
          /\ req[q].status = "panic" => e.who \in AbortingHandlers

\* A dispatch ran M1-before, M2-before, H1, M2-after, M1-after.
C5_Witness ==
  \E q \in Flows :
    /\ req[q].status = "done"
    /\ routers[req[q].mux].middlewares = <<"M1", "M2">>
    /\ Runs(req[q].trace) = <<<<"before", "M1">>, <<"before", "M2">>, <<"handler", "H1">>,
                              <<"after", "M2">>, <<"after", "M1">>>>

\* C9 as stated: every dispatch that acquired a context from the pool has
\* put it back when it ends, however it ends.
C9_ReleasedOnEveryExit ==
  \A q \in Flows :
    (req[q].status \in {"done", "panic"} /\ req[q].got # 0) =>
      (req[q].put /\ <<req[q].mux, req[q].got>> \in pools)

\* The index of the last "find" or "forward" event before the i-th, or 0.
LastBefore(q, i, ev) ==
  LET js == {j \in 1..(i - 1) : req[q].trace[j].ev = ev}
  IN IF js = {} THEN 0 ELSE CHOOSE j \in js : \A k \in js : k <= j

\* What the wildcard of pattern captures of a path it matches, when the
\* pattern has no placeholder.
Captured(pattern, path) ==
  IF pattern # <<>> /\ pattern[Len(pattern)] = "*" THEN Drop(path, Len(pattern) - 1) ELSE <<>>

\* The effective path at the i-th event of q: the request path, the mount
\* prefixes of the forwards before it removed, outermost first.
RECURSIVE Stripped(_, _)
Stripped(q, i) ==
  LET w == LastBefore(q, i, "forward")
      f == LastBefore(q, w, "find")
  IN IF w = 0 THEN req[q].path
     ELSE <<"/">> \o Captured(req[q].trace[f].pat, Stripped(q, f))

\* C6: a mount's closure forwards with the override path "/" followed by
\* what the mount's wildcard captured of the effective path (nothing, for the
\* bare prefix); every router routes the override path once one is set, so
\* that through nested mounts the innermost router and its handler see the
\* request path with the prefixes of all the mounts around it removed.
C6_MountForwardPath ==
  \A q \in Flows : \A i \in TraceIdx(q) :
    LET e == req[q].trace[i]
        f == LastBefore(q, i, "find")
        w == LastBefore(q, i, "forward")
    IN /\ e.ev = "forward" =>
            /\ f # 0 /\ f = i - 1
            /\ e.rp = <<"/">> \o Captured(req[q].trace[f].pat, req[q].trace[f].rp)
       /\ e.ev = "find" => e.rp = Stripped(q, i)
       /\ (e.ev \in {"handler", "404", "405"} /\ w # 0) =>
            (e.rp = Stripped(q, i) /\ e.rp = req[q].trace[w].rp)

\* GET /m/m/a through a mount at /m of a router with a mount at /m of a
\* router with GET /a reached the handler with the override path /a.
C6_Witness ==
  \E q \in Flows :
    /\ req[q].status = "done" /\ req[q].path = PathMMA
    /\ \E i \in TraceIdx(q) :
         /\ req[q].trace[i].ev = "handler" /\ req[q].trace[i].who = "H1"
         /\ req[q].trace[i].mx = 3
         /\ req[q].trace[i].rp = PathA
         /\ Cardinality({j \in 1..i : req[q].trace[j].ev = "forward"}) = 2

\* The pattern without its trailing slash.
NoTrailingSlash(pattern) ==
  IF pattern # <<>> /\ pattern[Len(pattern)] = "/"
    THEN SubSeq(pattern, 1, Len(pattern) - 1) ELSE pattern

\* A Mount of the pattern, with or without a trailing slash, has returned on
\* a router of mx's tree.
MountedBefore(mx, pattern) ==
  \E r \in RouterSet :
    /\ routers[r].tree = routers[mx].tree
    /\ \E c \in okCalls[r] :
         c[1] = "Mount" /\ NoTrailingSlash(c[2]) = NoTrailingSlash(pattern)

\* C7: a Mount (or a Route, which mounts) of a pattern panics when
\* pattern+"*" or pattern+"/*" is in the receiver's tree, and so whenever the
\* pattern was mounted before, with or without a trailing slash on either
\* call; the call that panics leaves every tree and, for Mount, every router
\* as they were.
C7_DuplicateMount ==
  [][\A mx \in RouterSet :
       LET t == routers[mx].tree
           p == last'.pattern
           taken == \/ findPattern(trees[t], p \o <<"*">>)
                    \/ findPattern(trees[t], p \o <<"/", "*">>)
                    \/ MountedBefore(mx, p)
       IN /\ (IsCall("Mount", mx) /\ taken) =>
               (last'.err = "mount-existing" /\ trees' = trees /\ routers' = routers)
          /\ (IsCall("Route", mx) /\ taken) =>
               (last'.err = "mount-existing" /\ \A u \in 1..Len(trees) : trees'[u] = trees[u])]_vars

\* Mount("/m/") panicked on a router on which Mount("/m") had returned.
C7_Witness ==
  /\ last.op = "Mount" /\ last.err = "mount-existing" /\ last.pattern = PathMS
  /\ <<"Mount", PathM>> \in okCalls[last.mx]
  /\ <<"Mount", PathMS>> \notin okCalls[last.mx]

\* q's dispatch is in flight with a routing context in its scope.
Holds(q) == Running(q) /\ req[q].rctx # 0

\* C8: no two dispatches in flight hold the same routing context, a context
\* held is not idle in a pool, and the handler of a request sees the
\* parameter and the override path of its own request.
C8_PoolIsolation ==
  /\ \A q1, q2 \in Flows : (q1 # q2 /\ Holds(q1) /\ Holds(q2)) => req[q1].rctx # req[q2].rctx
  /\ \A q \in Flows : Holds(q) => \A mx \in RouterSet : <<mx, req[q].rctx>> \notin pools
  /\ \A q \in Flows : \A i \in TraceIdx(q) :
       req[q].trace[i].ev = "handler" =>
         /\ req[q].trace[i].params = {<<"id", Tail(req[q].path)>>}
         /\ req[q].trace[i].rp = <<>>

\* Two dispatches of different paths are in flight, each with a context, the
\* handler of one has run and the other's route is found.
C8_Witness ==
  \E q1, q2 \in Flows :
    /\ q1 # q2 /\ Holds(q1) /\ Holds(q2)
    /\ req[q1].path # req[q2].path
    /\ \E i \in TraceIdx(q1) : req[q1].trace[i].ev = "handler"
    /\ \E i \in TraceIdx(q2) : req[q2].trace[i].ev = "find"

\* The path has no placeholder and no wildcard.
IsStatic(path) == \A i \in 1..Len(path) : ~IsParam(path[i]) /\ ~IsWild(path[i])

\* The handle calls that returned on the routers of mx's tree: the routes
\* registered on mx, through its groups, and by its mounts.
Triples(mx) ==
  {c \in UNION {okCalls[r] : r \in {x \in RouterSet : routers[x].tree = routers[mx].tree}} :
     c[1] = "handle"}

\* q's dispatch is over.
Finished(q) == req[q].status \in {"done", "panic"} /\ Entered(q)

\* The handlers of routes q's request has run.
RouteRuns(q) ==
  {i \in TraceIdx(q) : req[q].trace[i].ev = "handler" /\ req[q].trace[i].via = "route"}

\* q's request ran the handler named h as its route, and no other.
RanOnly(q, h) ==
  /\ Cardinality(RouteRuns(q)) = 1
  /\ \A i \in RouteRuns(q) : req[q].trace[i].who = h

\* C11 as stated: a request of the method and the path of any route
\* registered, its pattern without placeholder or wildcard, runs the handler
\* of that route and no other.
C11_RoundTrip ==
  \A q \in Flows :
    (Finished(q) /\ ~routers[req[q].mux].inline /\ IsStatic(req[q].path)) =>
      \A c \in Triples(req[q].mux) :
        (c[2] = req[q].path /\ req[q].method \in c[3] /\ c[4].kind = "user") =>
          RanOnly(q, c[4].h)

\* C11, amended: on a router that is not inline, a request of the method and
\* the path of a route registered, its pattern without placeholder or
\* wildcard, runs the handler of that route and no other, when no other
\* registration (a Handle or per-method call, or the routes a Mount makes at
\* its prefix and its prefix + "/") was made for the method at the pattern.
C11_RoundTripUnique ==
  \A q \in Flows :
    (Finished(q) /\ ~routers[req[q].mux].inline /\ IsStatic(req[q].path)) =>
      \A c \in Triples(req[q].mux) :
        ( /\ c[2] = req[q].path /\ req[q].method \in c[3] /\ c[4].kind = "user"
          /\ \A d \in Triples(req[q].mux) :
               (d[2] = c[2] /\ req[q].method \in d[3]) => d[4] = c[4] ) =>
          RanOnly(q, c[4].h)

\* GET /b on the root has run H2, registered with Get("/b", H2) through a
\* group of the root, while two handlers are registered for POST at /a.
C11_Witness ==
  \E q \in Flows :
    /\ req[q].status = "done" /\ req[q].mux = 1 /\ req[q].path = PathB /\ req[q].method = "GET"
    /\ \E g \in RouterSet :
         routers[g].inline /\ <<"handle", PathB, {"GET"}, UserH("H2")>> \in okCalls[g]
    /\ RanOnly(q, "H2")
    /\ \E c \in Triples(1) : c[2] = PathA /\ c[3] = {"POST"}

\* The pattern is empty or does not begin with "/".
Unrooted(pattern) == pattern = <<>> \/ pattern[1] # "/"

\* Every pattern of every tree begins with "/".
AllRooted(ts) ==
  \A t \in 1..Len(ts) : \A e \in ts[t] : Len(e.pattern) > 0 /\ e.pattern[1] = "/"

\* C12: every pattern stored begins with "/"; a Handle (or per-method
\* registration) or a Mount with a pattern that is empty or does not begin
\* with "/" panics, leaves every tree as it was and the receiver's computed
\* handler as it was, unbuilt if it was unbuilt; so does a Route, but for the
\* tree of the router it made.
C12_PatternRooted ==
  [][/\ AllRooted(trees')
     /\ \A mx \in RouterSet :
          /\ ((IsCall("handle", mx) \/ IsCall("Mount", mx)) /\ Unrooted(last'.pattern)) =>
               /\ last'.err # ""
               /\ trees' = trees
               /\ routers'[mx].handler = routers[mx].handler
               /\ okCalls'[mx] = okCalls[mx]
          /\ (IsCall("Route", mx) /\ Unrooted(last'.pattern)) =>
               /\ last'.err # ""
               /\ \A t \in 1..Len(trees) : trees'[t] = trees[t]
               /\ routers'[mx].handler = routers[mx].handler]_vars

\* Mount("m/", h) has panicked on a router that has no route and no
\* computed handler, after a Use on it.
C12_Witness ==
  /\ last.op = "Mount" /\ last.pattern = PatRelS /\ last.err = "pattern"
  /\ routers[last.mx].handler = Nil
  /\ trees[routers[last.mx].tree] = {}
  /\ <<"Use", <<>>>> \in okCalls[last.mx]

\* The router's computed handler is built.
Built(router) == router.handler # Nil

\* C13: the computed handler of a router that is not inline, once built, is
\* the same in every later state, and so is the router's middleware stack:
\* the handler is the chain of the middlewares the router has, around
\* routeHTTP, built once from the stack as it was then.
C13_SealOneWay ==
  [][/\ \A mx \in RouterSet :
          (~routers[mx].inline /\ Built(routers[mx])) =>
            /\ routers'[mx].handler = routers[mx].handler
            /\ routers'[mx].middlewares = routers[mx].middlewares
     /\ \A mx \in 1..Len(routers') :
          (~routers'[mx].inline /\ Built(routers'[mx])) =>
            routers'[mx].handler = chain(routers'[mx].middlewares, RouteHTTPH(mx))]_vars

\* A Handle has returned on a router that Chain had sealed after a Use: its
\* handler is still the chain of that one middleware.
C13_Witness ==
  /\ last.op = "handle" /\ last.err = ""
  /\ ~routers[last.mx].inline
  /\ okCalls[last.mx] = {<<"Use", <<>>>>, <<"Chain", <<>>>>, <<"handle", PathA, {"GET"}, UserH("H1")>>}
  /\ routers[last.mx].middlewares = <<"M1">>
  /\ routers[last.mx].handler = chain(<<"M1">>, RouteHTTPH(last.mx))

\* q's flow is at a call of a router's ServeHTTP with a routing context
\* already in the request's scope: a nested dispatch.
AtNested(q) == AtCall(q, "mux") /\ req[q].rctx # 0

\* A nested ServeHTTP of q's request, if this step is one, leaves the pools
\* and the contexts as they are, keeps the request's context, and calls the
\* router's computed handler (or panics for want of one).
NestedStep(q) ==
  (AtNested(q) /\ req'[q] # req[q]) =>
    /\ pools' = pools /\ ctxs' = ctxs
    /\ req'[q].rctx = req[q].rctx /\ req'[q].got = req[q].got /\ req'[q].put = req[q].put
    /\ \/ req'[q].status = "panic"
       \/ Head(req'[q].stack) = CallF(routers[Top(q).h.sub].handler, "serve", Top(q).h.sub)

\* The context q's request acquired is put back by the outermost router, and
\* only when nothing of the request is left to run.
ReleasedLast(q) ==
  /\ req[q].put => (req[q].status = "done" /\ <<req[q].mux, req[q].got>> \in pools)
  /\ \A i \in 1..Len(req[q].stack) :
       req[q].stack[i].op = "put" => (i = Len(req[q].stack) /\ req[q].stack[i].mx = req[q].mux)

\* C14 as stated: a nested dispatch runs on the context of the request and
\* touches no pool, and a request, through mounts of any depth, makes one
\* acquire and one release, both by the outermost router, the release after
\* every nested dispatch is over.
C14_OneAcquireOneRelease ==
  [][\A q \in Flows :
       /\ NestedStep(q)
       /\ ReleasedLast(q)'
       /\ (req'[q].status \in {"done", "panic"} /\ req'[q].got # 0) => req'[q].put]_vars

\* The part of C14 that holds: a nested dispatch runs on the context of the
\* request and touches no pool; the one release, when it is made, is made by
\* the outermost router after every nested dispatch is over, and it is made
\* whenever the request's handlers return.
C14_NestedReusesContext ==
  [][\A q \in Flows :
       /\ NestedStep(q)
       /\ ReleasedLast(q)'
       /\ (req'[q].status = "done" /\ req'[q].got # 0) => req'[q].put]_vars

\* This step is q's outermost ServeHTTP taking a context from the pool.
Acquires(q) == req[q].got = 0 /\ req'[q].got # 0

\* C15: when the computed handler is about to run in an outermost dispatch,
\* the context ServeHTTP acquired has no parameter, an empty route path, and
\* for parent the scope of the incoming request, whatever the context held
\* when the pool returned it.
C15_ResetOnAcquire ==
  [][\A q \in Flows :
       Acquires(q) =>
         /\ req'[q].rctx = req'[q].got
         /\ Head(req'[q].stack) = CallF(routers[req[q].mux].handler, "serve", req[q].mux)
         /\ ctxs'[req'[q].got] = [Params |-> {}, RoutePath |-> <<>>, parent |-> req[q].id]]_vars

\* The computed handler is about to run on a context that the pool returned
\* with a parameter and a route path of the request before.
C15_Witness ==
  \E q \in Flows :
    /\ Running(q) /\ req[q].got # 0
    /\ Top(q).op = "call" /\ Top(q).via = "serve"
    /\ req[q].found.Params # {} /\ req[q].found.RoutePath # <<>>
    /\ req[q].found.parent # req[q].id
    /\ ctxs[req[q].got] = [Params |-> {}, RoutePath |-> <<>>, parent |-> req[q].id]

EndsInSlash(pattern) == pattern # <<>> /\ pattern[Len(pattern)] = "/"

\* What a Mount that returns on mx has left in mx's tree: for a pattern P
\* that does not end in "/", the routes P and P/* forwarding to the handler
\* and the route P/ bound to the not-found handler of mx; for a P that ends
\* in "/", the route P* and no other.
MountRegisters(mx) ==
  (IsCall("Mount", mx) /\ last'.err = "") =>
    LET P == last'.pattern
        T == trees[routers[mx].tree]
        U == trees'[routers[mx].tree]
    IN IF EndsInSlash(P)
         THEN /\ Patterns(U) = Patterns(T) \cup {P \o <<"*">>}
              /\ \A m \in RealMethods : Endpoint(U, P \o <<"*">>, m).kind = "mount"
         ELSE /\ Patterns(U) = Patterns(T) \cup {P, P \o <<"/">>, P \o <<"/", "*">>}
              /\ \A m \in RealMethods :
                   /\ Endpoint(U, P, m).kind = "mount"
                   /\ Endpoint(U, P \o <<"/", "*">>, m) = Endpoint(U, P, m)
                   /\ Endpoint(U, P \o <<"/">>, m) = NotFoundHandler(routers[mx])

\* The routes a Mount registered at its pattern + "/", each with the handler
\* bound: the not-found handler of the receiver when Mount was called.
SlashRoutes(mx) ==
  {c \in Triples(mx) : "STUB" \in c[3] /\ c[4].kind # "mount" /\ EndsInSlash(c[2])}

\* The i-th event of q's trace, a route found, is answered by handler h and
\* by no forward of that router.
AnsweredBy(q, i, h) ==
  /\ IF i = Len(req[q].trace)
       THEN Running(q) /\ Top(q).op = "call" /\ Top(q).h = h
       ELSE LET e == req[q].trace[i + 1]
            IN IF h = HttpNotFound THEN e.ev = "404" ELSE e.ev = "handler" /\ e.who = h.h
  /\ \A j \in TraceIdx(q) :
       j > i => ~(req[q].trace[j].ev = "forward" /\ req[q].trace[j].mx = req[q].trace[i].mx)

\* A route a mount forwards from, found for the i-th event of q's trace, is
\* followed by the forward, with the route path "/" and what the wildcard
\* captured.
Forwarded(q, i) ==
  LET e == req[q].trace[i]
  IN (Endpoint(TreeOf(e.mx), e.pat, req[q].method).kind = "mount" /\ i < Len(req[q].trace)) =>
       /\ req[q].trace[i + 1].ev = "forward" /\ req[q].trace[i + 1].mx = e.mx
       /\ req[q].trace[i + 1].rp = <<"/">> \o Captured(e.pat, e.rp)

\* C16 as stated: after Mount(P, h), P without a trailing "/", the tree has
\* P, P/ and P/*; the path P is forwarded with the route path "/", the path
\* P/ is answered by the receiver's not-found handler and not forwarded, a
\* path P/s is forwarded; a P with a trailing "/" registers P* alone.
C16_MountSlashNotFound ==
  /\ [][\A mx \in RouterSet : MountRegisters(mx)]_vars
  /\ [](\A q \in Flows : \A i \in TraceIdx(q) :
          LET e == req[q].trace[i]
          IN (e.ev = "find" /\ e.who = "hit") =>
               /\ Forwarded(q, i)
               /\ \A c \in SlashRoutes(e.mx) :
                    c[2] = e.pat => AnsweredBy(q, i, EffectiveNotFound(e.mx)))

\* C16, amended: as stated, but the path P/ is answered by the not-found
\* handler the receiver had when Mount was called (its override then, else
\* http.NotFound), whatever NotFound call was made on the receiver since.
C16_MountSlashNotFoundThen ==
  /\ [][/\ \A mx \in RouterSet : MountRegisters(mx)
        /\ \A mx \in RouterSet : IsCall("NotFound", mx) => trees' = trees]_vars
  /\ [](\A q \in Flows : \A i \in TraceIdx(q) :
          LET e == req[q].trace[i]
          IN (e.ev = "find" /\ e.who = "hit") =>
               /\ Forwarded(q, i)
               /\ \A c \in SlashRoutes(e.mx) :
                    c[2] = e.pat => AnsweredBy(q, i, c[4]))

\* GET /m/ was answered by http.NotFound, and not forwarded, on a router
\* that has a not-found override, set after the Mount of /m.
C16_Witness ==
  \E q \in Flows :
    /\ req[q].status = "done" /\ req[q].path = PathMS
    /\ <<"Mount", PathM>> \in okCalls[req[q].mux]
    /\ routers[req[q].mux].notFoundHandler = UserH("N1")
    /\ \E i \in TraceIdx(q) : req[q].trace[i].ev = "404"
    /\ \A i \in TraceIdx(q) : req[q].trace[i].ev \notin {"forward", "handler"}

\* The router a Mount of pattern recorded on the route it registered in
\* tree, or 0.
Subrouter(tree, pattern) ==
  LET p == (IF EndsInSlash(pattern) THEN pattern ELSE pattern \o <<"/">>) \o <<"*">>
  IN IF \E e \in tree : e.pattern = p THEN (CHOOSE e \in tree : e.pattern = p).subrouter ELSE 0

\* C17: when a Mount (or the Mount of a Route) of a router returns, the
\* router mounted keeps the not-found handler it had of its own; if it had
\* none it has the receiver's, and none if the receiver has none.  The
\* receiver's is as it was.  So a path under the mount that no pattern of the
\* router mounted matches is answered by that handler: the receiver's
\* override when the router mounted had none of its own.
C17_NotFoundInherited ==
  /\ [][\A mx \in RouterSet :
          ((IsCall("Mount", mx) \/ IsCall("Route", mx)) /\ last'.err = "") =>
            LET sub == Subrouter(trees'[routers[mx].tree], last'.pattern)
            IN /\ routers'[mx].notFoundHandler = routers[mx].notFoundHandler
               /\ sub # 0 =>
                    routers'[sub].notFoundHandler =
                      IF last'.had # Nil THEN last'.had ELSE routers[mx].notFoundHandler]_vars
  /\ [](\A q \in Flows : \A i \in TraceIdx(q) :
          LET e == req[q].trace[i]
          IN (e.ev = "find" /\ e.who = "miss" /\ i < Len(req[q].trace)) =>
               IsNotFoundRun(req[q].trace[i + 1], EffectiveNotFound(e.mx), e.mx))

\* GET /m/b, unmatched in the router Route made at /m with no not-found
\* handler of its own, was answered there by N1, the receiver's override.
C17_Witness ==
  \E q \in Flows :
    /\ req[q].status = "done" /\ req[q].mux = 1 /\ req[q].path = PathMB
    /\ last.op = "Route" /\ last.mx = 1 /\ last.had = Nil
    /\ routers[1].notFoundHandler = UserH("N1")
    /\ \E i \in TraceIdx(q) :
         /\ req[q].trace[i].ev = "handler" /\ req[q].trace[i].who = "N1"
         /\ req[q].trace[i].via = "notfound" /\ req[q].trace[i].mx = 2

\* The middlewares an inline router made on mx by Chain starts with: those of
\* mx if mx is inline.
Inherited(mx) == IF routers[mx].inline THEN routers[mx].middlewares ELSE <<>>

\* M1-before, ..., Mn-before, Mn-after, ..., M1-after
Shell(mws) ==
  [i \in 1..Len(mws) |-> <<"before", mws[i]>>]
    \o [i \in 1..Len(mws) |-> <<"after", mws[Len(mws) + 1 - i]>>]

\* The route's handler as the tree has it for the i-th event of q's trace, a
\* handler run: the one bound to the pattern found last before.
Stored(q, i) ==
  LET e == req[q].trace[i]
      f == req[q].trace[LastBefore(q, i, "find")]
  IN Endpoint(TreeOf(e.mx), f.pat, req[q].method)

\* C18: the router Chain or Group makes on mx shares mx's tree and starts
\* with the middlewares of mx as they are then, if mx is inline, followed by
\* those given; a Use changes the router it is called on alone, and no tree.
\* The route registered through an inline router is stored wrapped with that
\* router's middlewares.  A dispatch on the root runs the root's middlewares,
\* then those the route is wrapped with, then the handler, each once, and
\* the root's alone when no route is found.
C18_InlineWrapping ==
  /\ [][\A mx \in RouterSet :
          LET new == Len(routers) + 1
          IN /\ ((IsCall("Chain", mx) \/ IsCall("Group", mx)) /\ last'.err = "") =>
                  /\ routers'[new].inline
                  /\ routers'[new].tree = routers[mx].tree
                  /\ IsPrefix(Inherited(mx) \o last'.mws, routers'[new].middlewares)
                  /\ IsCall("Chain", mx) => routers'[new].middlewares = Inherited(mx) \o last'.mws
                  /\ \A r \in RouterSet \ {mx} : routers'[r] = routers[r]
                  /\ routers'[mx].middlewares = routers[mx].middlewares
             /\ IsCall("Use", mx) =>
                  /\ trees' = trees
                  /\ \A r \in RouterSet \ {mx} : routers'[r] = routers[r]]_vars
  /\ [](/\ \A r \in RouterSet : \A c \in okCalls[r] :
            (routers[r].inline /\ c[1] = "handle"
               /\ \A r2 \in RouterSet : \A d \in okCalls[r2] :
                    (routers[r2].tree = routers[r].tree /\ d[1] = "handle" /\ d[2] = c[2])
                      => (r2 = r /\ d = c)) =>
              \A m \in c[3] : Endpoint(TreeOf(r), c[2], m) = chain(routers[r].middlewares, c[4])
        /\ \A q \in Flows :
             LET root == routers[req[q].mux].middlewares
             IN (Started(q) /\ ~routers[req[q].mux].inline) =>
                  /\ \A i \in TraceIdx(q) :
                       (req[q].trace[i].ev = "handler" /\ req[q].trace[i].via = "route") =>
                         LET expected == Onion(root \o Stored(q, i).mws, req[q].trace[i].who)
                         IN /\ IsPrefix(Runs(req[q].trace), expected)
                            /\ req[q].status = "done" => Runs(req[q].trace) = expected
                  /\ (req[q].status = "done" /\ \A i \in TraceIdx(q) : req[q].trace[i].ev # "handler") =>
                       Runs(req[q].trace) = Shell(root))

\* GET /b on the root ran M1 of the root, M2 of the group made by Chain, M3
\* of the group made in it by Group, and H2 registered through that one.
C18_Witness ==
  \E q \in Flows :
    /\ req[q].status = "done" /\ req[q].mux = 1 /\ req[q].path = PathB
    /\ routers[1].middlewares = <<"M1">>
    /\ Len(routers) = 3 /\ routers[2].middlewares = <<"M2">> /\ routers[3].middlewares = <<"M2", "M3">>
    /\ Runs(req[q].trace) = Onion(<<"M1", "M2", "M3">>, "H2")

\* C19 as stated: the handler of an inline router stays unset whatever is
\* registered through it, and Use on it is accepted before and after.
C19_InlineNeverBuilds ==
  /\ [](\A mx \in RouterSet : routers[mx].inline => routers[mx].handler = Nil)
  /\ [][\A mx \in RouterSet :
          (IsCall("Use", mx) /\ routers[mx].inline) =>
            (last'.err = "" /\ routers'[mx].middlewares = routers[mx].middlewares \o last'.mws)]_vars

\* C19, amended: the handler of an inline router is unset until a route is
\* registered through it and is routeHTTP, with no middleware around it,
\* from then on; Chain and Group on it leave it unset; Use on it is accepted
\* until a route was registered through it and panics after, the middlewares
\* as they were.
C19_InlineSealedByRoute ==
  /\ [](\A mx \in RouterSet :
          routers[mx].inline =>
            routers[mx].handler = IF HasReturned(mx, {"handle"}) THEN RouteHTTPH(mx) ELSE Nil)
  /\ [][\A mx \in RouterSet :
          (IsCall("Use", mx) /\ routers[mx].inline) =>
            IF HasReturned(mx, {"handle"})
              THEN /\ last'.err = "use-after-build"
                   /\ routers'[mx].middlewares = routers[mx].middlewares
              ELSE /\ last'.err = ""
                   /\ routers'[mx].middlewares = routers[mx].middlewares \o last'.mws]_vars

\* Use has panicked on an inline router through which a route was
\* registered.
C19_Witness ==
  /\ last.op = "Use" /\ last.err = "use-after-build"
  /\ routers[last.mx].inline
  /\ routers[last.mx].handler = RouteHTTPH(last.mx)
  /\ routers[last.mx].middlewares = <<"M2">>
  /\ <<"handle", PathA, {"GET"}, UserH("H1")>> \in okCalls[last.mx]

\* The parameters with a name: all but the wildcard's capture.
Named(params) == {kv \in params : kv[1] # "*"}

Keys(params) == {kv[1] : kv \in params}

\* The forward of a mount in flow q: the closure Mount registered runs.
Forwards(q) == AtCall(q, "mount") /\ req'[q] # req[q]

\* What the lookup recorded as the l-th event of q's trace captured.
CapturedAt(trace, l) ==
  IF trace[l].ev = "find" /\ trace[l].who = "hit"
    THEN Match(trace[l].pat, trace[l].rp).params ELSE {}

\* C20: the closure of a mount leaves the named parameters of the routing
\* context as they are, removes the wildcard's capture and makes "/" and
\* that capture (nothing, if there is none) the route path; the ServeHTTP it
\* calls on a router, with the context in the request, changes no context;
\* the lookup of a router keeps every named parameter but those it captures
\* itself under the same name.  So a handler reached through mounts sees no
\* wildcard capture of a mount and every named parameter the routers before
\* captured, with the value captured last under that name.
C20_ParamsThroughMount ==
  /\ [][\A q \in Flows :
          /\ Forwards(q) =>
               LET old == ctxs[req[q].rctx]
                   new == ctxs'[req[q].rctx]
               IN /\ \A kv \in old.Params : kv[1] = "*" => new.RoutePath = <<"/">> \o kv[2]
                  /\ Named(old.Params) = old.Params => new.RoutePath = <<"/">>
                  /\ new.Params = Named(old.Params)
                  /\ new.parent = old.parent
                  /\ req'[q].rctx = req[q].rctx
          /\ (AtNested(q) /\ req'[q] # req[q]) => ctxs' = ctxs
          /\ (AtCall(q, "routeHTTP") /\ req'[q] # req[q]) =>
               LET old == ctxs[req[q].rctx].Params
                   new == ctxs'[req[q].rctx].Params
                   t == req'[q].trace
                   own == UNION {CapturedAt(t, l) : l \in (Len(req[q].trace) + 1)..Len(t)}
               IN /\ Keys(old) \subseteq Keys(new)
                  /\ \A kv \in Named(old) : kv \in new \/ kv[1] \in Keys(own)
                  /\ own \subseteq new]_vars
  /\ [](\A q \in Flows : \A i, j \in TraceIdx(q) :
          LET t == req[q].trace
          IN (t[i].ev = "handler" /\ t[i].via = "route" /\ t[j].ev = "forward" /\ j < i) =>
               /\ Named(t[i].params) = t[i].params
               /\ Named(CapturedAt(t, j - 1)) \subseteq t[j].params
               /\ Keys(t[j].params) \subseteq Keys(t[i].params)
               /\ \A kv \in t[j].params :
                    \/ kv \in t[i].params
                    \/ \E l \in (j + 1)..(i - 1) : kv[1] \in Keys(CapturedAt(t, l)))

\* GET /x/y/a reached H1 through the mounts at /{id} and, in the router
\* mounted there, at /{k}: H1 saw id = x and k = y and nothing else, with
\* the route path /a.
C20_Witness ==
  \E q \in Flows : \E i \in TraceIdx(q) :
    /\ req[q].status = "done" /\ req[q].path = PathXYA
    /\ req[q].trace[i].ev = "handler" /\ req[q].trace[i].who = "H1"
    /\ req[q].trace[i].params = {<<"id", <<"x">>>>, <<"k", <<"y">>>>}
    /\ req[q].trace[i].rp = PathA
    /\ Cardinality({j \in TraceIdx(q) : req[q].trace[j].ev = "forward"}) = 2

====
